---------------------------- MODULE Spec2Model ----------------------------
(***************************************************************************)
(* A model of the sales-roleplay backend (src/server.js): the PII          *)
(* redactor, the session analysis (analyzeSession) and the request         *)
(* handlers that use them.                                                 *)
(*                                                                         *)
(* JavaScript strings are TLA+ strings; TLC evaluates Len, \o and SubSeq   *)
(* on them, so the text functions work character by character as the       *)
(* JavaScript does.  A JavaScript value that may be null, undefined or a   *)
(* number is a record [t |-> type, v |-> text].                            *)
(***************************************************************************)
EXTENDS Integers, Sequences, FiniteSets, TLC

-----------------------------------------------------------------------------
(* State *)

VARIABLES
  rPc, rIn, rOut, rOut2,      \* a text on its way through redactPII, once and twice
  aPc, aTranscript, aHistory, aResult,   \* one call of analyzeSession
  calls,                      \* the calls of analyzeSession so far, with their results
  docState,                   \* the spreadsheet handle doc: "ready", "noSessions" (the
                              \* Sessions sheet is missing) or "down" (not loaded)
  sessions,                   \* the rows of the Sessions sheet
  feedback,                   \* the rows of the Feedback sheet
  clock,                      \* Date.now()
  served,                     \* the number of requests received so far
  req                         \* per client connection: the request in progress or answered

redactVars == <<rPc, rIn, rOut, rOut2>>
analyzeVars == <<aPc, aTranscript, aHistory, aResult>>
serverVars == <<docState, sessions, feedback, clock, served, req>>
vars ==
  <<rPc, rIn, rOut, rOut2, aPc, aTranscript, aHistory, aResult, calls,
    docState, sessions, feedback, clock, served, req>>

-----------------------------------------------------------------------------
(* JavaScript values *)

Null == [t |-> "null", v |-> ""]
Undefined == [t |-> "undefined", v |-> ""]
Str(s) == [t |-> "string", v |-> s]
Num(s) == [t |-> "number", v |-> s]

\* ToBoolean: null, undefined, "" and 0 are falsy
Truthy(x) ==
  CASE x.t = "string" -> x.v # ""
    [] x.t = "number" -> x.v # "0"
    [] OTHER -> FALSE

-----------------------------------------------------------------------------
(* Characters and strings *)

Ch(s, i) == SubSeq(s, i, i)

UpperSeq == <<"A","B","C","D","E","F","G","H","I","J","K","L","M",
              "N","O","P","Q","R","S","T","U","V","W","X","Y","Z">>
LowerSeq == <<"a","b","c","d","e","f","g","h","i","j","k","l","m",
              "n","o","p","q","r","s","t","u","v","w","x","y","z">>
Upper == {UpperSeq[i] : i \in DOMAIN UpperSeq}
Lower == {LowerSeq[i] : i \in DOMAIN LowerSeq}
Digit == {"0","1","2","3","4","5","6","7","8","9"}
\* \w and \s of a JavaScript regular expression (the ASCII part)
WordChar == Upper \cup Lower \cup Digit \cup {"_"}
WhiteSpace == {" ", "\t", "\n", "\r", "\f"}

\* String.prototype.toLowerCase
LowerChar(c) ==
  IF c \in Upper THEN LowerSeq[CHOOSE i \in DOMAIN UpperSeq : UpperSeq[i] = c] ELSE c

\* (the string is mapped half by half, which keeps the recursion shallow)
RECURSIVE LowerRange(_, _, _)
LowerRange(s, lo, hi) ==
  IF lo > hi THEN ""
  ELSE IF lo = hi THEN LowerChar(Ch(s, lo))
  ELSE LET mid == (lo + hi) \div 2
       IN LowerRange(s, lo, mid) \o LowerRange(s, mid + 1, hi)

toLowerCase(s) == LowerRange(s, 1, Len(s))

\* String.prototype.includes
includes(s, sub) ==
  \E i \in 1..(Len(s) - Len(sub) + 1) : SubSeq(s, i, i + Len(sub) - 1) = sub

\* String.prototype.trim
RECURSIVE TrimLeft(_)
TrimLeft(s) == IF s # "" /\ Ch(s, 1) \in WhiteSpace THEN TrimLeft(SubSeq(s, 2, Len(s))) ELSE s
RECURSIVE TrimRight(_)
TrimRight(s) ==
  IF s # "" /\ Ch(s, Len(s)) \in WhiteSpace THEN TrimRight(SubSeq(s, 1, Len(s) - 1)) ELSE s
trim(s) == TrimRight(TrimLeft(s))

\* Array.prototype.join over an array of strings
RECURSIVE join(_, _)
join(arr, sep) ==
  IF arr = << >> THEN ""
  ELSE IF Len(arr) = 1 THEN arr[1]
  ELSE arr[1] \o sep \o join(Tail(arr), sep)

-----------------------------------------------------------------------------
(* Regular expressions: a pattern is a sequence of items, each a word      *)
(* boundary (\b) or a character class with a repetition count; matching is *)
(* the backtracking search of the JavaScript engine (greedy counts are     *)
(* tried from the longest down, lazy ones from the shortest up).  An       *)
(* optional group (?:X)?Y is the ordered alternation XY | Y.               *)

WordB ==
  [b |-> TRUE, set |-> {}, neg |-> FALSE, min |-> 0, max |-> 0, inf |-> FALSE, lazy |-> FALSE]
Cls(set, lo, hi) ==
  [b |-> FALSE, set |-> set, neg |-> FALSE, min |-> lo, max |-> hi, inf |-> FALSE,
   lazy |-> FALSE]
One(set) == Cls(set, 1, 1)
Opt(set) == Cls(set, 0, 1)
\* set+ and set{lo,}
AtLeast(set, lo) ==
  [b |-> FALSE, set |-> set, neg |-> FALSE, min |-> lo, max |-> 0, inf |-> TRUE,
   lazy |-> FALSE]
\* set*
Star(set) == AtLeast(set, 0)
\* .*? (the dot matches every character but a line terminator)
LazyDots ==
  [b |-> FALSE, set |-> {"\n", "\r"}, neg |-> TRUE, min |-> 0, max |-> 0, inf |-> TRUE,
   lazy |-> TRUE]

InClass(c, it) == (c \in it.set) # it.neg

IsWordAt(s, p) == p >= 1 /\ p <= Len(s) /\ Ch(s, p) \in WordChar
AtBoundary(s, p) == IsWordAt(s, p - 1) # IsWordAt(s, p)

\* the number of characters of s from position p on that are in the class of
\* item it, at most cap
RECURSIVE RunLen(_, _, _, _)
RunLen(it, s, p, cap) ==
  IF cap = 0 \/ p > Len(s) \/ ~InClass(Ch(s, p), it) THEN 0
  ELSE 1 + RunLen(it, s, p + 1, cap - 1)

\* MatchFrom: the position after the match of items k.. of re at position p
\* of s, or 0 when there is none
RECURSIVE MatchFrom(_, _, _, _), TryCount(_, _, _, _, _, _)
MatchFrom(re, k, s, p) ==
  IF k > Len(re) THEN p
  ELSE IF re[k].b THEN (IF AtBoundary(s, p) THEN MatchFrom(re, k + 1, s, p) ELSE 0)
  ELSE LET it == re[k]
           run == RunLen(it, s, p, IF it.inf THEN Len(s) ELSE it.max)
       IN IF run < it.min THEN 0
          ELSE TryCount(re, k, s, p, IF it.lazy THEN it.min ELSE run, run)

TryCount(re, k, s, p, n, run) ==
  IF n < re[k].min \/ n > run THEN 0
  ELSE LET e == MatchFrom(re, k + 1, s, p + n)
       IN IF e # 0 THEN e
          ELSE TryCount(re, k, s, p, IF re[k].lazy THEN n + 1 ELSE n - 1, run)

\* the first alternative that matches at p decides
RECURSIVE MatchAlts(_, _, _, _)
MatchAlts(alts, a, s, p) ==
  IF a > Len(alts) THEN 0
  ELSE LET e == MatchFrom(alts[a], 1, s, p)
       IN IF e # 0 THEN e ELSE MatchAlts(alts, a + 1, s, p)

\* String.prototype.replace with a /g pattern none of whose matches is empty
\* (the search resumes after each match, at the leftmost position from
\* there on where the pattern matches)
RECURSIVE ReplaceFrom(_, _, _, _)
ReplaceFrom(alts, s, rep, p) ==
  LET starts == {q \in p..Len(s) : MatchAlts(alts, 1, s, q) > q}
  IN IF starts = {} THEN SubSeq(s, p, Len(s))
     ELSE LET q == CHOOSE x \in starts : \A y \in starts : x <= y
          IN SubSeq(s, p, q - 1) \o rep \o ReplaceFrom(alts, s, rep, MatchAlts(alts, 1, s, q))

replaceAll(s, alts, rep) == ReplaceFrom(alts, s, rep, 1)

\* whether the pattern matches somewhere in s
test(alts, s) == \E p \in 1..Len(s) : MatchAlts(alts, 1, s, p) > p

-----------------------------------------------------------------------------
(* PII redaction *)

\* /\b[A-Za-z0-9._%+-]+@[A-Za-z0-9.-]+\.[A-Z|a-z]{2,}\b/g
EmailRe ==
  << <<WordB,
       AtLeast(Upper \cup Lower \cup Digit \cup {".", "_", "%", "+", "-"}, 1),
       One({"@"}),
       AtLeast(Upper \cup Lower \cup Digit \cup {".", "-"}, 1),
       One({"."}),
       AtLeast(Upper \cup Lower \cup {"|"}, 2),
       WordB>> >>

PhoneSep == {"-", "."} \cup WhiteSpace
PhoneBody ==
  <<Opt({"("}), Cls(Digit, 3, 3), Opt({")"}), Opt(PhoneSep),
    Cls(Digit, 3, 3), Opt(PhoneSep), Cls(Digit, 4, 4), WordB>>
\* /\b(?:\+?1[-.\s]?)?\(?([0-9]{3})\)?[-.\s]?([0-9]{3})[-.\s]?([0-9]{4})\b/g
PhoneRe ==
  << <<WordB, Opt({"+"}), One({"1"}), Opt(PhoneSep)>> \o PhoneBody,
     <<WordB>> \o PhoneBody >>

\* /\b\d{3}-?\d{2}-?\d{4}\b/g
SsnRe ==
  << <<WordB, Cls(Digit, 3, 3), Opt({"-"}), Cls(Digit, 2, 2), Opt({"-"}),
       Cls(Digit, 4, 4), WordB>> >>

CardSep == {"-"} \cup WhiteSpace
\* /\b\d{4}[-\s]?\d{4}[-\s]?\d{4}[-\s]?\d{4}\b/g
CardRe ==
  << <<WordB, Cls(Digit, 4, 4), Opt(CardSep), Cls(Digit, 4, 4), Opt(CardSep),
       Cls(Digit, 4, 4), Opt(CardSep), Cls(Digit, 4, 4), WordB>> >>

\* /\b[A-Z][a-z]+ [A-Z][a-z]+\b/g
NameRe ==
  << <<WordB, One(Upper), AtLeast(Lower, 1), One({" "}), One(Upper),
       AtLeast(Lower, 1), WordB>> >>

redactEmail(s) == replaceAll(s, EmailRe, "[EMAIL_REDACTED]")
redactPhone(s) == replaceAll(s, PhoneRe, "[PHONE_REDACTED]")
redactSsn(s) == replaceAll(s, SsnRe, "[SSN_REDACTED]")
redactCard(s) == replaceAll(s, CardRe, "[CARD_REDACTED]")
\* the name replacement with a placeholder in title case
redactName_titleCase(s) == replaceAll(s, NameRe, "[Name Redacted]")
redactName(s) == replaceAll(s, NameRe, "[NAME_REDACTED]")

\* the five replacements of a string, in the order of the source
redactText(s) == redactName(redactCard(redactSsn(redactPhone(redactEmail(s)))))

\* redactPII without its guard: replace is no method of a value that is no
\* string, and the call ends in a TypeError
redactPII_noGuard(text) ==
  IF text.t # "string" THEN [t |-> "TypeError", v |-> ""] ELSE Str(redactText(text.v))

\* redactPII(text), text any JavaScript value
redactPII(text) ==
  IF ~Truthy(text) \/ text.t # "string" THEN text ELSE Str(redactText(text.v))

-----------------------------------------------------------------------------
(* Session analysis.  A turn is [speaker |-> "user" or "ai", message |-> a *)
(* JavaScript value]; a history is a sequence of turns.                    *)

\* String.prototype.split on a pattern /[set]+/: the pieces between the runs
\* of separator characters (a leading or trailing run leaves an empty piece)
RECURSIVE SplitFrom(_, _, _)
SplitFrom(s, set, p) ==
  LET seps == {q \in p..Len(s) : Ch(s, q) \in set}
  IN IF seps = {} THEN <<SubSeq(s, p, Len(s))>>
     ELSE LET q == CHOOSE x \in seps : \A y \in seps : x <= y
          IN <<SubSeq(s, p, q - 1)>> \o SplitFrom(s, set, q + RunLen(One(set), s, q, Len(s)))

split(s, set) == SplitFrom(s, set, 1)

\* Math.round(n / d) for integers n >= 0, d > 0 (halves round up)
RoundDiv(n, d) == (2 * n + d) \div (2 * d)
\* Math.ceil(n / d) for integers n >= 0, d > 0
CeilDiv(n, d) == (n + d - 1) \div d
Min(a, b) == IF a < b THEN a ELSE b
Max(a, b) == IF a > b THEN a ELSE b

\* the string a message contributes to Array.prototype.join
JoinText(x) == IF x.t \in {"null", "undefined"} THEN "" ELSE x.v

userTurns(history) == SelectSeq(history, LAMBDA msg : msg.speaker = "user")

fillerWords == <<"um", "uh", "like", "you know", "basically", "literally", "actually">>

googleAdsConcepts ==
  <<"quality score", "cpc", "ctr", "roas", "performance max", "smart campaigns",
    "search campaigns", "display network", "youtube ads", "shopping campaigns",
    "keyword research", "negative keywords", "bidding strategy", "ad extensions",
    "conversion tracking", "remarketing", "audience targeting", "budget optimization",
    "google ads", "advertising", "marketing", "campaigns", "keywords", "budget">>

discoveryKeywords ==
  <<"goal", "currently", "budget", "target", "competition", "challenge",
    "how", "what", "why", "when", "where">>

objectionPhrases ==
  <<"understand", "let me explain", "for example", "actually", "what i mean",
    "let me show you", "i see your point", "that makes sense">>

valueKeywords ==
  <<"roi", "return", "revenue", "growth", "customers", "sales", "profit",
    "increase", "improve", "results">>

includesAny(s, list) == \E i \in DOMAIN list : includes(s, list[i])

\* the record returned when there is nothing to analyse
defaultRecord ==
  [talkTimeRatio |-> 50, fillerWordCount |-> 0, confidenceScore |-> 50,
   wordCount |-> 0, averageSentenceLength10 |-> 0, conversationLength |-> 0,
   discovery_score |-> 2, product_knowledge_score |-> 2,
   objection_handling_score |-> 2, business_value_score |-> 2,
   overall_effectiveness_score |-> 2]

\* the outcome of a call that ends in a TypeError
Threw == [threw |-> "TypeError"]

countWords(text) ==
  Len(SelectSeq(split(toLowerCase(text), WhiteSpace), LAMBDA word : Len(word) > 0))

\* the filler count of the words that are a filler word themselves
countFillers_exactMatch(text) ==
  Len(SelectSeq(split(toLowerCase(text), WhiteSpace),
                LAMBDA word : \E i \in DOMAIN fillerWords : word = fillerWords[i]))

countFillers(text) ==
  Len(SelectSeq(split(toLowerCase(text), WhiteSpace),
                LAMBDA word : Len(word) > 0 /\ includesAny(word, fillerWords)))

countSentences(text) ==
  Len(SelectSeq(split(text, {".", "!", "?"}), LAMBDA s : Len(trim(s)) > 0))

\* the confidence score with the ratio of the words that are no fillers
confidence_plainWordRatio(fillerCount, wordCount) ==
  IF wordCount = 0 THEN 100
  ELSE Max(20, Min(100, (400 * fillerCount - 199 * wordCount) \div (2 * wordCount)))

\* the confidence score cut to an integer instead of rounded
confidence_truncated(fillerCount, wordCount) ==
  IF wordCount = 0 THEN 100
  ELSE Max(20, Min(100, (200 * wordCount - 400 * fillerCount) \div (2 * wordCount)))

\* Math.round(Math.max(20, Math.min(100, 100 - (fillerCount / wordCount) * 200)))
confidence(fillerCount, wordCount) ==
  IF wordCount = 0 THEN 100
  ELSE Max(20, Min(100, (201 * wordCount - 400 * fillerCount) \div (2 * wordCount)))

\* Math.round((userCount / totalMessages) * 100), or 50 without messages
\* the talk-time estimate of the transcript-only analysis:
\* Math.round(Math.min(80, Math.max(20, words.length / 10)))
estimatedTalkTime(wordCount) == RoundDiv(Min(800, Max(200, wordCount)), 10)

\* the talk-time ratio with the quotient cut off instead of rounded
talkTime_floor(userCount, totalMessages) ==
  IF totalMessages > 0 THEN (100 * userCount) \div totalMessages ELSE 50

talkTime(userCount, totalMessages) ==
  IF totalMessages > 0 THEN RoundDiv(100 * userCount, totalMessages) ELSE 50

discoveryScore(n) == Min(5, Max(1, CeilDiv(n, 2) + 1))
\* the product-knowledge score without its upper clamp
productKnowledgeScore_noCap(n) == Max(1, IF n > 0 THEN n + 1 ELSE 1)
productKnowledgeScore(n) == Min(5, Max(1, IF n > 0 THEN n + 1 ELSE 1))
\* the objection-handling score with the branches of its conditional exchanged
objectionHandlingScore_swapped(n) == Min(5, Max(1, IF n > 0 THEN 1 ELSE n + 2))
objectionHandlingScore(n) == Min(5, Max(1, IF n > 0 THEN n + 2 ELSE 1))
businessValueScore(n) == Min(5, Max(1, IF n > 0 THEN n + 2 ELSE 1))
\* the overall score with the average cut off instead of rounded up
overallScore_floor(d, p, o, b) == Min(5, Max(1, (d + p + o + b) \div 4))
overallScore(d, p, o, b) == Min(5, Max(1, CeilDiv(d + p + o + b, 4)))

\* the record of a transcript's or history's analysis text and user messages
analysisRecord(textToAnalyze, history) ==
  LET userMessages == userTurns(history)
      wordCount == countWords(textToAnalyze)
      sentenceCount == countSentences(textToAnalyze)
      fillerWordCount == countFillers(textToAnalyze)
      allUserText ==
        toLowerCase(join([i \in DOMAIN userMessages |-> JoinText(userMessages[i].message)], " "))
      conceptsUsed == SelectSeq(googleAdsConcepts, LAMBDA c : includes(allUserText, c))
      discoveryQuestions ==
        Len(SelectSeq(userMessages, LAMBDA msg :
              includes(msg.message.v, "?")
              /\ includesAny(toLowerCase(msg.message.v), discoveryKeywords)))
      objectionHandling ==
        Len(SelectSeq(userMessages, LAMBDA msg :
              includesAny(toLowerCase(msg.message.v), objectionPhrases)))
      businessValueMentions ==
        Len(SelectSeq(userMessages, LAMBDA msg :
              includesAny(toLowerCase(msg.message.v), valueKeywords)))
      d == discoveryScore(discoveryQuestions)
      p == productKnowledgeScore(Len(conceptsUsed))
      o == objectionHandlingScore(objectionHandling)
      b == businessValueScore(businessValueMentions)
  IN [talkTimeRatio |-> talkTime(Len(userMessages), Len(history)),
      fillerWordCount |-> fillerWordCount,
      confidenceScore |-> confidence(fillerWordCount, wordCount),
      wordCount |-> wordCount,
      averageSentenceLength10 |->
        IF sentenceCount > 0 THEN RoundDiv(10 * wordCount, sentenceCount) ELSE 0,
      conversationLength |-> Len(history),
      discovery_score |-> d,
      product_knowledge_score |-> p,
      objection_handling_score |-> o,
      business_value_score |-> b,
      overall_effectiveness_score |-> overallScore(d, p, o, b),
      google_ads_concepts_used |-> conceptsUsed,
      discovery_questions_count |-> discoveryQuestions,
      objection_handling_count |-> objectionHandling,
      business_value_mentions |-> businessValueMentions]

\* the analysis text made of the turns of both speakers
selectText_allSpeakers(transcript, history) ==
  IF Len(history) > 0
  THEN join([i \in DOMAIN history |-> JoinText(history[i].message)], " ")
  ELSE IF Truthy(transcript) THEN transcript.v ELSE ""

\* the analysis text of the user messages with the transcript after them
selectText_withTranscript(transcript, history) ==
  LET userMessages == userTurns(history)
  IN join([i \in DOMAIN userMessages |-> JoinText(userMessages[i].message)], " ")
       \o (IF Truthy(transcript) THEN " " \o transcript.v ELSE "")

\* the text the words, sentences and filler words are counted in
selectText(transcript, history) ==
  IF Len(history) > 0
  THEN LET userMessages == userTurns(history)
       IN join([i \in DOMAIN userMessages |-> JoinText(userMessages[i].message)], " ")
  ELSE IF Truthy(transcript) THEN transcript.v ELSE ""

\* whether a step of the analysis raises a TypeError: toLowerCase of a
\* transcript that is no string, includes of a user message that is no string
analysisThrows(transcript, history) ==
  \/ Len(history) = 0 /\ Truthy(transcript) /\ transcript.t # "string"
  \/ \E i \in DOMAIN history :
       history[i].speaker = "user" /\ history[i].message.t # "string"

\* analyzeSession without its early return for empty input
analyzeSession_noDefault(transcript, history) ==
  IF analysisThrows(transcript, history) THEN Threw
  ELSE analysisRecord(selectText(transcript, history), history)

\* analyzeSession with a filler counter that lives outside the call and is
\* never reset
analyzeSession_sharedCounter(transcript, history) ==
  IF ~Truthy(transcript) /\ Len(history) = 0 THEN defaultRecord
  ELSE IF analysisThrows(transcript, history) THEN Threw
  ELSE LET r == analysisRecord(selectText(transcript, history), history)
           carried == IF calls = << >> \/ "fillerWordCount" \notin DOMAIN calls[Len(calls)].result
                      THEN 0 ELSE calls[Len(calls)].result.fillerWordCount
       IN [r EXCEPT !.fillerWordCount = @ + carried]

\* analyzeSession(transcript, conversationHistory): the record returned, or
\* Threw when the call ends in a TypeError
analyzeSession(transcript, history) ==
  IF ~Truthy(transcript) /\ Len(history) = 0 THEN defaultRecord
  ELSE IF analysisThrows(transcript, history) THEN Threw
  ELSE analysisRecord(selectText(transcript, history), history)

-----------------------------------------------------------------------------
(* The HTTP server: requests, responses and the pure parts of the handlers. *)
(* A request body is a record of JavaScript values; conversationHistory is  *)
(* [t |-> "array", "null" or "undefined" (absent), a |-> the turns].        *)

\* the connections, by number
Clients == {1, 2}
Users == {"u1", "u2"}
DocStates == {"ready", "noSessions", "down"}

Arr(a) == [t |-> "array", a |-> a]
NullArr == [t |-> "null", a |-> << >>]
UndefinedArr == [t |-> "undefined", a |-> << >>]

\* res.status(status).json(body)
Json(status, body) == [status |-> status, body |-> body]
NoRes == [status |-> 0, body |-> [pending |-> TRUE]]

NoBody ==
  [sessionId |-> Undefined, transcript |-> Undefined, conversationHistory |-> UndefinedArr,
   userMessage |-> Undefined, scenarioId |-> Undefined]

\* the locals of a handler that live across its awaits
NoLoc ==
  [sessionId |-> "", redactedTranscript |-> Undefined, analysis |-> Null, aiFeedback |-> "",
   llmInput |-> "", session |-> 0, row |-> Null]

IdleSlot ==
  [pc |-> "idle", route |-> "", token |-> "", uid |-> "", body |-> NoBody, loc |-> NoLoc,
   res |-> NoRes, error |-> ""]

\* const { ..., conversationHistory = [] } = req.body
historyOrDefault(body) ==
  IF body.conversationHistory.t = "undefined" THEN << >> ELSE body.conversationHistory.a

\* a value inside a template literal: `${x}`
TemplateText(x) ==
  CASE x.t = "null" -> "null"
    [] x.t = "undefined" -> "undefined"
    [] OTHER -> x.v

\* the rows of the Scenarios sheet
ScenarioRows ==
  <<[scenario_id |-> "sc1", id |-> "1", ai_character_name |-> "Dana Lee",
     ai_character_role |-> "", business_vertical |-> "Retail"]>>

\* cell || fallback
OrDefault(cell, fallback) == IF cell = "" THEN fallback ELSE cell

\* a word of a pattern with the i flag
CaseInsensitive(w) ==
  [i \in 1..Len(w) |->
     One({c \in WordChar \cup {":"} : LowerChar(c) = LowerChar(Ch(w, i))})]

\* /^(Customer:|AI:|Assistant:)\s*/i
PrefixRe ==
  <<CaseInsensitive("Customer:") \o <<Star(WhiteSpace)>>,
    CaseInsensitive("AI:") \o <<Star(WhiteSpace)>>,
    CaseInsensitive("Assistant:") \o <<Star(WhiteSpace)>>>>

\* /\[.*?\]/g
BracketRe == <<<<One({"["}), LazyDots, One({"]"})>>>>

\* content.trim(), then the two clean-up replacements
cleanResponse(content) ==
  LET trimmed == trim(content)
      e == MatchAlts(PrefixRe, 1, trimmed, 1)
      unprefixed == IF e = 0 THEN trimmed ELSE SubSeq(trimmed, e, Len(trimmed))
  IN replaceAll(unprefixed, BracketRe, "")

repetitivePatterns ==
  <<"i'm sorry, i didn't quite hear you clearly", "what company are you calling from",
    "sorry, i didn't catch that", "could you repeat that", "i don't understand">>

\* the reply chosen from what the user said
contextReply(userMessage, businessVertical) ==
  LET m == toLowerCase(userMessage)
  IN IF includes(m, "hello") \/ includes(m, "hi") THEN "Hello. How can I help you today?"
     ELSE IF includes(m, "google") \/ includes(m, "ads") \/ includes(m, "advertising")
       THEN "Advertising for my " \o businessVertical
            \o " business? What exactly are you proposing?"
     ELSE IF includes(m, "marketing") \/ includes(m, "promotion")
       THEN "Marketing help? Tell me more about what you have in mind."
     ELSE IF includes(m, "business") \/ includes(m, "company")
       THEN "What kind of business solution are you offering?"
     ELSE IF includes(m, "help") \/ includes(m, "improve")
       THEN "Help with what specifically? What are you suggesting?"
     ELSE "I'm listening. What is this regarding?"

\* the reply made of the completion's content
chatReply(content, userMessage, businessVertical) ==
  LET aiResponse == cleanResponse(content)
      isRepetitive == includesAny(toLowerCase(aiResponse), repetitivePatterns)
  IN IF isRepetitive \/ Len(aiResponse) < 10
     THEN contextReply(userMessage, businessVertical)
     ELSE aiResponse

\* the phrases by which the chat handler of src/unnamed/part_001 recognises
\* a completion that coaches the salesperson
salesPhrases ==
  <<"you should sell", "try this approach", "here's how to", "the best way to sell",
    "sales technique", "closing strategy", "pitch this way">>

\* the handler's catch block, made to answer as the other handlers' do
chatCaught_status500(error) ==
  [res |-> Json(500, [error |-> "Failed to get AI response"]), error |-> error]

\* the catch block of the chat handler
chatCaught(error) ==
  [res |-> Json(200, [response |-> "Yes, I'm here. What did you want to discuss?",
                      character |-> "Customer"]),
   error |-> error]

\* POST /api/ai/chat after authentication: the response, and the error caught
\* on the way if any.  doc is the state of the spreadsheet handle, rowsOk
\* whether getRows resolves, llm the outcome of the completion request.
chat(body, doc, rowsOk, llm) ==
  IF body.userMessage.t # "string" \/ body.conversationHistory.t = "null"
  THEN chatCaught("TypeError")
  ELSE IF ~Truthy(body.userMessage) \/ ~Truthy(body.scenarioId)
  THEN [res |-> Json(400, [error |-> "Missing userMessage or scenarioId"]), error |-> ""]
  ELSE IF doc = "down" \/ ~rowsOk THEN chatCaught("sheets")
  ELSE LET found == {i \in DOMAIN ScenarioRows :
                       \/ Str(ScenarioRows[i].scenario_id) = body.scenarioId
                       \/ Str(ScenarioRows[i].id) = body.scenarioId}
       IN IF found = {}
          THEN [res |-> Json(404, [error |-> "Scenario not found"]), error |-> ""]
          ELSE LET scenario == ScenarioRows[CHOOSE i \in found : \A j \in found : i <= j]
                   characterName == OrDefault(scenario.ai_character_name, "Alex Johnson")
                   characterRole ==
                     OrDefault(scenario.ai_character_role, "Business Professional")
                   businessVertical ==
                     OrDefault(scenario.business_vertical, "General Business")
               IN IF llm.kind = "reject" THEN chatCaught("openai")
                  ELSE IF llm.content.t # "string" THEN chatCaught("TypeError")
                  ELSE [res |-> Json(200,
                                  [response |-> chatReply(llm.content.v, body.userMessage.v,
                                                          businessVertical),
                                   character |-> characterName,
                                   characterRole |-> characterRole]),
                        error |-> ""]

\* the text of the conversation sent for feedback
conversationText(history) ==
  join([i \in DOMAIN history |->
          (IF history[i].speaker = "user" THEN "Salesperson" ELSE "Customer")
          \o ": " \o TemplateText(history[i].message)], "\n")

\* String.prototype.substring(0, n)
substring0(s, n) == SubSeq(s, 1, Min(n, Len(s)))

FeedbackPromptLimit == 2000
ShortConversation == 10

defaultFeedback ==
  "Great job starting the conversation! Try to engage more with the customer to get detailed feedback."
fallbackFeedback == "Session completed successfully. Keep practicing to improve your skills!"

\* { ...analysis, aiFeedback, conversationLength }
finalAnalysis(analysis, aiFeedback, conversationLength) ==
  [aiFeedback |-> aiFeedback, conversationLength |-> conversationLength] @@ analysis

-----------------------------------------------------------------------------
(* The parts of the state a specification leaves alone *)

RedactIdle == rPc = "idle" /\ rIn = Null /\ rOut = Null /\ rOut2 = Null
AnalyzeIdle == aPc = "idle" /\ aTranscript = Null /\ aHistory = << >> /\ aResult = Null
CallsIdle == calls = << >>
ServerIdle ==
  /\ docState = "ready" /\ sessions = << >> /\ feedback = << >>
  /\ clock = 0 /\ served = 0 /\ req = [c \in Clients |-> IdleSlot]

-----------------------------------------------------------------------------
(* The redactor on bounded texts: a text is a concatenation of at most     *)
(* MaxFrags fragments, each a PII-shaped string or a piece of context.     *)

MaxFrags == 3

Frags ==
  {"a@b.co", "555-123-4567", "987-65-1234", "1234 5678 9012 3456", "Al Bo",
   " ", "x", "5551234", "(", "+1 "}

RECURSIVE Concats(_)
Concats(n) ==
  IF n = 0 THEN {""}
  ELSE LET shorter == Concats(n - 1) IN shorter \cup {s \o f : s \in shorter, f \in Frags}

RedactInputs ==
  {Null, Undefined, Num("0"), Num("42")} \cup {Str(s) : s \in Concats(MaxFrags)}

InitRedact ==
  /\ rPc = "input" /\ rIn \in RedactInputs /\ rOut = Null /\ rOut2 = Null
  /\ AnalyzeIdle /\ CallsIdle /\ ServerIdle

\* redactPII(text)
Redact ==
  /\ rPc = "input"
  /\ rOut' = redactPII(rIn)
  /\ rPc' = "once"
  /\ UNCHANGED <<rIn, rOut2, analyzeVars, calls, serverVars>>

\* redactPII applied to the text it returned
RedactAgain ==
  /\ rPc = "once"
  /\ rOut2' = redactPII(rOut)
  /\ rPc' = "twice"
  /\ UNCHANGED <<rIn, rOut, analyzeVars, calls, serverVars>>

NextRedact == Redact \/ RedactAgain

SpecRedact == InitRedact /\ [][NextRedact]_vars

-----------------------------------------------------------------------------
(* analyzeSession on bounded inputs: a history of at most MaxTurns turns   *)
(* over a pool of messages, and a transcript.                              *)

MaxTurns == 3

Turn(speaker, message) == [speaker |-> speaker, message |-> message]

UserMessages ==
  {Str("Um, so, like, I uh think this is good"),
   Str("What is your current budget for this?"),
   Str("I understand. Let me explain ROI"),
   Str("cpc ctr roas keywords"),
   Str("Is it a success?")}

AiMessages == {Str("Not sure we need this"), Str("How much?")}

Turns ==
  {Turn("user", m) : m \in UserMessages} \cup {Turn("ai", m) : m \in AiMessages}

RECURSIVE Histories(_)
Histories(n) ==
  IF n = 0 THEN {<< >>}
  ELSE LET shorter == Histories(n - 1)
       IN shorter \cup {Append(h, t) : h \in shorter, t \in Turns}

Transcripts ==
  {Null, Undefined, Str(""), Str("  "), Str("Basically um\n it, like, works. Really!")}

InitAnalyze ==
  /\ aPc = "input"
  /\ aTranscript \in Transcripts
  /\ aHistory \in Histories(MaxTurns)
  /\ aResult = Null
  /\ RedactIdle /\ CallsIdle /\ ServerIdle

\* analyzeSession(transcript, conversationHistory)
Analyze ==
  /\ aPc = "input"
  /\ aResult' = analyzeSession(aTranscript, aHistory)
  /\ aPc' = "done"
  /\ UNCHANGED <<aTranscript, aHistory, redactVars, calls, serverVars>>

NextAnalyze == Analyze

SpecAnalyze == InitAnalyze /\ [][NextAnalyze]_vars

-----------------------------------------------------------------------------
(* A sequence of at most MaxCalls calls of analyzeSession, one after the   *)
(* other in the one thread of the server, each logged with its arguments   *)
(* and its result.                                                         *)

MaxCalls == 3

CallTranscripts == {Null, Str(""), Str("  "), Str("um ok"), Str("ok so")}

CallHistories ==
  {<< >>,
   <<Turn("ai", Str("like um"))>>,
   <<Turn("user", Str("um uh")), Turn("ai", Str("ok"))>>,
   <<Turn("user", Str("Why budget?")), Turn("ai", Str("um"))>>}

InitCalls == CallsIdle /\ RedactIdle /\ AnalyzeIdle /\ ServerIdle

Call(transcript, history) ==
  /\ Len(calls) < MaxCalls
  /\ calls' = Append(calls, [transcript |-> transcript, history |-> history,
                             result |-> analyzeSession(transcript, history)])
  /\ UNCHANGED <<redactVars, analyzeVars, serverVars>>

NextCalls == \E t \in CallTranscripts, h \in CallHistories : Call(t, h)

SpecCalls == InitCalls /\ [][NextCalls]_vars

-----------------------------------------------------------------------------
(* Specification Spec: the server.  Each client connection carries one      *)
(* request at a time; a handler runs from one await to the next as one      *)
(* step, so the handlers of two connections interleave at their awaits.     *)

MaxRequests == 2

ServerInit ==
  /\ docState \in DocStates
  /\ sessions = << >> /\ feedback = << >>
  /\ clock = 0 /\ served = 0
  /\ req = [c \in Clients |-> IdleSlot]

Init == ServerInit /\ RedactIdle /\ AnalyzeIdle /\ CallsIdle

Routes == {"chat", "start", "end"}
BadTokens == {"none", "bad"}

ChatBody(userMessage, scenarioId, history) ==
  [NoBody EXCEPT !.userMessage = userMessage, !.scenarioId = scenarioId,
                 !.conversationHistory = history]
ChatBodies ==
  {ChatBody(Undefined, Str("sc1"), UndefinedArr),
   ChatBody(Str(""), Str("sc1"), UndefinedArr),
   ChatBody(Str("Hello there"), Undefined, UndefinedArr),
   ChatBody(Str("Hello there"), Str("nope"), UndefinedArr),
   ChatBody(Str("Hello there"), Str("sc1"), NullArr),
   ChatBody(Str("We sell ads"), Str("sc1"),
            Arr(<<Turn("user", Str("Hello there")), Turn("ai", Str("Hello."))>>))}

ChatCompletions ==
  {"Customer: That sounds pricey [pause] for us.",
   " Could you repeat that?",
   "Ok.",
   "You should sell the value. Try this approach first."}
ChatLlmOutcomes ==
  {[kind |-> "reject", content |-> Null], [kind |-> "resolve", content |-> Null]}
    \cup {[kind |-> "resolve", content |-> Str(s)] : s \in ChatCompletions}

StartBodies == {[NoBody EXCEPT !.scenarioId = Str("sc1")]}

EndBody(sessionId, transcript, history) ==
  [NoBody EXCEPT !.sessionId = sessionId, !.transcript = transcript,
                 !.conversationHistory = history]
\* the session ids a client may send: the ids in the sheet and one that is not
KnownIds == {Str(sessions[i].id) : i \in DOMAIN sessions} \cup {Str("ext")}
EndBodies ==
  {EndBody(Undefined, Str("um ok"), UndefinedArr),
   EndBody(Str("ext"), Str("um ok"), NullArr),
   EndBody(Str("ext"), Undefined, Arr(<<Turn("user", Undefined)>>)),
   EndBody(Str("ext"), Num("42"), Arr(<< >>))}
    \cup UNION {
      {EndBody(id, Str("Call Al Bo 555-123-4567"),
               Arr(<<Turn("user", Str("Budget? Call 555-123-4567")),
                     Turn("ai", Str("How much?"))>>)),
       EndBody(id, Undefined, UndefinedArr)} : id \in KnownIds}

Bodies(route) ==
  CASE route = "chat" -> ChatBodies
    [] route = "start" -> StartBodies
    [] route = "end" -> EndBodies

\* the chat handler does not read req.user: one caller stands for all
Callers(route) == IF route = "chat" THEN {"u1"} ELSE Users

FeedbackCompletions == {"Good discovery questions. Quantify the value next time."}
FeedbackLlmOutcomes ==
  {[kind |-> "reject", content |-> ""]}
    \cup {[kind |-> "resolve", content |-> s] : s \in FeedbackCompletions}

\* a request is taken on the first connection that carries none: 0 when all
\* are busy
FreeSlot ==
  LET free == {c \in Clients : req[c].pc \in {"idle", "done"}}
  IN IF free = {} THEN 0 ELSE CHOOSE c \in free : \A d \in free : c <= d

\* authenticateToken answers and calls next all the same: the handler runs
\* without req.user
Reject_callsNext(c, route, token) ==
  /\ c = FreeSlot
  /\ served < MaxRequests
  /\ served' = served + 1
  /\ req' = [req EXCEPT ![c] =
       [IdleSlot EXCEPT !.pc = route, !.route = route, !.token = token,
          !.body = CHOOSE body \in Bodies(route) : TRUE]]
  /\ UNCHANGED <<docState, sessions, feedback, clock, redactVars, analyzeVars, calls>>

\* authenticateToken turns a request away: no token, or one that
\* verifyIdToken rejects
Reject(c, route, token) ==
  /\ c = FreeSlot
  /\ served < MaxRequests
  /\ served' = served + 1
  /\ req' = [req EXCEPT ![c] =
       [IdleSlot EXCEPT !.pc = "done", !.route = route, !.token = token,
          !.res = IF token = "none" THEN Json(401, [error |-> "Access token required"])
                  ELSE Json(403, [error |-> "Invalid token"])]]
  /\ UNCHANGED <<docState, sessions, feedback, clock, redactVars, analyzeVars, calls>>

\* authenticateToken lets a request through to its handler: req.user.uid =
\* uid; most requests are taken in all
Take(c, route, uid, body, most) ==
  /\ c = FreeSlot
  /\ served < most
  /\ served' = served + 1
  /\ req' = [req EXCEPT ![c] =
       [IdleSlot EXCEPT !.pc = route, !.route = route, !.token = "valid", !.uid = uid,
                        !.body = body]]
  /\ UNCHANGED <<docState, sessions, feedback, clock, redactVars, analyzeVars, calls>>

Accept(c, route, uid, body) == Take(c, route, uid, body, MaxRequests)

\* POST /api/ai/chat
Chat(c) ==
  /\ req[c].pc = "chat"
  /\ \E rowsOk \in BOOLEAN, llm \in ChatLlmOutcomes :
       LET out == chat(req[c].body, docState, rowsOk, llm)
       IN req' = [req EXCEPT ![c].pc = "done", ![c].res = out.res, ![c].error = out.error]
  /\ UNCHANGED <<docState, sessions, feedback, clock, served, redactVars, analyzeVars, calls>>

\* POST /api/sessions/start, up to the await of addRow
StartBegin(c) ==
  /\ req[c].pc = "start"
  /\ \E now \in {clock, clock + 1} :
       /\ clock' = now
       /\ LET sessionId == "session_" \o ToString(now) \o "_" \o req[c].uid
          IN req' = [req EXCEPT ![c] =
               IF docState = "down"
               THEN [@ EXCEPT !.pc = "done", !.error = "sheets",
                              !.res = Json(500, [error |-> "Failed to start session"])]
               ELSE IF docState = "noSessions"
               THEN [@ EXCEPT !.pc = "done",
                              !.res = Json(500, [error |-> "Sessions sheet not found"])]
               ELSE [@ EXCEPT !.pc = "start_add", !.loc.sessionId = sessionId]]
  /\ UNCHANGED <<docState, sessions, feedback, served, redactVars, analyzeVars, calls>>

\* POST /api/sessions/start, from the completion of addRow
StartAdd(c) ==
  /\ req[c].pc = "start_add"
  /\ \E ok \in BOOLEAN :
       IF ok
       THEN /\ sessions' = Append(sessions,
                 [id |-> req[c].loc.sessionId, userId |-> req[c].uid, status |-> "active",
                  transcript |-> Undefined])
            /\ req' = [req EXCEPT ![c].pc = "done", ![c].loc = NoLoc,
                 ![c].res = Json(200, [sessionId |-> req[c].loc.sessionId,
                                       status |-> "started"])]
       ELSE /\ sessions' = sessions
            /\ req' = [req EXCEPT ![c].pc = "done", ![c].loc = NoLoc, ![c].error = "sheets",
                 ![c].res = Json(500, [error |-> "Failed to start session"])]
  /\ UNCHANGED <<docState, feedback, clock, served, redactVars, analyzeVars, calls>>

\* POST /api/sessions/end: the response
endRespond(slot) ==
  [slot EXCEPT !.pc = "done", !.loc = NoLoc,
     !.res = Json(200, [analysis |->
               finalAnalysis(slot.loc.analysis, slot.loc.aiFeedback,
                             Len(historyOrDefault(slot.body)))])]

\* ... from "Save feedback" to the await of feedbackSheet.addRow
endToFeedback(slot) ==
  IF docState = "down" THEN endRespond(slot)
  ELSE [slot EXCEPT !.pc = "end_feedback"]

\* the outer catch block
endCaught(slot, error) ==
  [slot EXCEPT !.pc = "done", !.error = error,
               !.res = Json(500, [error |-> "Failed to end session"])]

\* the try block of the Sessions sheet without its catch: the failure reaches
\* the outer catch
sheetCaught_rethrown(slot) == endCaught(slot, "sheets")

\* catch (sheetError): the failure is logged and the handler goes on
sheetCaught(slot) == endToFeedback(slot)

\* ... from "Update session in Google Sheets" to the await of getRows
endToSheets(slot) ==
  IF docState \in {"down", "noSessions"} THEN sheetCaught(slot)
  ELSE [slot EXCEPT !.pc = "end_rows"]

\* the transcript kept as the request sent it
redactedTranscriptOf_raw(transcript) == transcript

\* const redactedTranscript = redactPII(transcript || '')
redactedTranscriptOf(transcript) ==
  redactPII(IF Truthy(transcript) THEN transcript ELSE Str(""))

\* the call of analyzeSession with a history array that all requests in
\* progress share: each request appends its turns to what the others left
endAnalysis_sharedHistory(c, redactedTranscript, history) ==
  LET others == {d \in Clients \ {c} : req[d].pc \notin {"idle", "done"}}
      left == IF others = {} THEN << >>
              ELSE historyOrDefault(req[CHOOSE d \in others : TRUE].body)
  IN analyzeSession(redactedTranscript, left \o history)

\* const analysis = analyzeSession(redactedTranscript, conversationHistory)
\* in the request of connection c
endAnalysis(c, redactedTranscript, history) == analyzeSession(redactedTranscript, history)

\* POST /api/sessions/end, up to the await of the feedback completion
EndBegin(c) ==
  /\ req[c].pc = "end"
  /\ LET slot == req[c]
         body == slot.body
         history == historyOrDefault(body)
         redactedTranscript == redactedTranscriptOf(body.transcript)
         analysis == endAnalysis(c, redactedTranscript, history)
         text == conversationText(history)
         analysed == [slot EXCEPT !.loc.sessionId = body.sessionId.v,
                                  !.loc.redactedTranscript = redactedTranscript,
                                  !.loc.analysis = analysis]
     IN req' = [req EXCEPT ![c] =
          IF body.conversationHistory.t = "null" THEN endCaught(slot, "TypeError")
          ELSE IF ~Truthy(body.sessionId)
          THEN [slot EXCEPT !.pc = "done",
                            !.res = Json(400, [error |-> "Session ID required"])]
          ELSE IF analysis = Threw THEN endCaught(slot, "TypeError")
          ELSE IF Len(text) > ShortConversation
          THEN [analysed EXCEPT !.pc = "end_llm",
                                !.loc.llmInput = "Please analyze this sales conversation:\n\n"
                                                 \o substring0(text, FeedbackPromptLimit)]
          ELSE endToSheets([analysed EXCEPT !.loc.aiFeedback = defaultFeedback])]
  /\ UNCHANGED <<docState, sessions, feedback, clock, served, redactVars, analyzeVars, calls>>

\* the feedback try block without its catch: the failure of the completion
\* request reaches the outer catch
feedbackCaught_rethrown(slot) == endCaught(slot, "openai")

\* the catch block of the feedback try block, and on to the sheets
feedbackCaught(slot) ==
  endToSheets([slot EXCEPT !.loc.aiFeedback = fallbackFeedback, !.error = "openai"])

\* ... from the completion request's outcome on
EndLLM(c) ==
  /\ req[c].pc = "end_llm"
  /\ \E llm \in FeedbackLlmOutcomes :
       req' = [req EXCEPT ![c] =
         IF llm.kind = "reject" THEN feedbackCaught(@)
         ELSE endToSheets([@ EXCEPT !.loc.aiFeedback = llm.content])]
  /\ UNCHANGED <<docState, sessions, feedback, clock, served, redactVars, analyzeVars, calls>>

\* the row found with its transcript set and its status left as it was
completedRow_statusKept(session, redactedTranscript) ==
  [session EXCEPT !.transcript = redactedTranscript]

\* session.set('status', 'completed'); session.set('transcript',
\* redactedTranscript): the row has no endTime and no duration here
completedRow(session, redactedTranscript) ==
  [session EXCEPT !.status = "completed", !.transcript = redactedTranscript]

\* ... from the outcome of getRows on: the row with the session's id is looked
\* up and changed in memory, or a new row is about to be added
EndRows(c) ==
  /\ req[c].pc = "end_rows"
  /\ \E ok \in BOOLEAN :
       LET slot == req[c]
           found == {i \in DOMAIN sessions : sessions[i].id = slot.loc.sessionId}
       IN req' = [req EXCEPT ![c] =
            IF ~ok THEN sheetCaught(slot)
            ELSE IF found # {}
            THEN LET i == CHOOSE x \in found : \A y \in found : x <= y
                 IN [slot EXCEPT !.pc = "end_save", !.loc.session = i,
                       !.loc.row = completedRow(sessions[i], slot.loc.redactedTranscript)]
            ELSE [slot EXCEPT !.pc = "end_add"]]
  /\ UNCHANGED <<docState, sessions, feedback, clock, served, redactVars, analyzeVars, calls>>

\* ... from the outcome of session.save or sessionsSheet.addRow on
EndWrite(c) ==
  /\ req[c].pc \in {"end_save", "end_add"}
  /\ \E ok \in BOOLEAN :
       LET slot == req[c]
       IN /\ sessions' =
               IF ~ok THEN sessions
               ELSE IF slot.pc = "end_save"
               THEN [sessions EXCEPT ![slot.loc.session] = slot.loc.row]
               ELSE Append(sessions,
                      [id |-> slot.loc.sessionId, userId |-> slot.uid, status |-> "completed",
                       transcript |-> slot.loc.redactedTranscript])
          /\ req' = [req EXCEPT ![c] = IF ok THEN endToFeedback(slot) ELSE sheetCaught(slot)]
  /\ UNCHANGED <<docState, feedback, clock, served, redactVars, analyzeVars, calls>>

\* ... from the outcome of feedbackSheet.addRow to the response
EndFeedback(c) ==
  /\ req[c].pc = "end_feedback"
  /\ \E ok \in BOOLEAN :
       LET slot == req[c]
           analysis == slot.loc.analysis
       IN feedback' =
            IF ~ok THEN feedback
            ELSE Append(feedback,
                   [sessionId |-> slot.loc.sessionId, userId |-> slot.uid,
                    talkTimeRatio |-> analysis.talkTimeRatio,
                    fillerWordCount |-> analysis.fillerWordCount,
                    confidenceScore |-> analysis.confidenceScore,
                    aiFeedback |-> slot.loc.aiFeedback,
                    conversationLength |-> Len(historyOrDefault(slot.body)),
                    keyMetrics |-> analysis])
  /\ req' = [req EXCEPT ![c] = endRespond(@)]
  /\ UNCHANGED <<docState, sessions, clock, served, redactVars, analyzeVars, calls>>

Next ==
  \/ \E c \in Clients, route \in Routes, token \in BadTokens : Reject(c, route, token)
  \/ \E c \in Clients, route \in Routes :
       \E uid \in Callers(route), body \in Bodies(route) : Accept(c, route, uid, body)
  \/ \E c \in Clients : Chat(c)
  \/ \E c \in Clients : StartBegin(c)
  \/ \E c \in Clients : StartAdd(c)
  \/ \E c \in Clients : EndBegin(c)
  \/ \E c \in Clients : EndLLM(c)
  \/ \E c \in Clients : EndRows(c)
  \/ \E c \in Clients : EndWrite(c)
  \/ \E c \in Clients : EndFeedback(c)

Spec == Init /\ [][Next]_vars

-----------------------------------------------------------------------------
(* Specification SpecRead: the read endpoints beside the requests that write *)
(* the rows they read.  A read handler reads the sheets at one await and     *)
(* writes nothing, so it answers in one step with the rows of that moment.   *)

MaxReadRequests == 3

\* const { limit = 10, offset = 0 } = req.query, the query being empty
DefaultLimit == 10

\* parseInt(x) || d of a stored number
OrNumber(n, d) == IF n = 0 THEN d ELSE n

\* the rows of the Sessions sheet, whoever they belong to
userSessions_allRows(sessionRows, uid) == sessionRows

\* sessionRows.filter(row => row.get('userId') === req.user.uid)
userSessions(sessionRows, uid) == SelectSeq(sessionRows, LAMBDA row : row.userId = uid)

\* feedbackRows.find(f => f.get('sessionId') === sessionId) as the history
\* shows it
historyFeedback(feedbackRows, sessionId) ==
  LET found == {i \in DOMAIN feedbackRows : feedbackRows[i].sessionId = sessionId}
  IN IF found = {} THEN Null
     ELSE LET f == feedbackRows[CHOOSE i \in found : \A j \in found : i <= j]
          IN [talkTimeRatio |-> OrNumber(f.talkTimeRatio, 50),
              fillerWordCount |-> OrNumber(f.fillerWordCount, 0),
              confidenceScore |-> OrNumber(f.confidenceScore, 50),
              conversationLength |-> OrNumber(f.conversationLength, 0),
              aiFeedback |-> f.aiFeedback]

\* the body of the answer of GET /api/sessions/history; the rows carry no
\* start time, so the sessions stay in the order of the sheet, and the two
\* averages of the summary are left out
historyResult(sessionRows, feedbackRows, uid) ==
  LET own == userSessions(sessionRows, uid)
      sessionsWithFeedback ==
        [i \in DOMAIN own |->
           [id |-> own[i].id, status |-> own[i].status,
            feedback |-> historyFeedback(feedbackRows, own[i].id)]]
      total == Len(sessionsWithFeedback)
  IN [sessions |-> SubSeq(sessionsWithFeedback, 1, Min(total, DefaultLimit)),
      pagination |-> [total |-> total, offset |-> 0, limit |-> DefaultLimit,
                      hasMore |-> total > DefaultLimit],
      summary |-> [totalSessions |-> total,
                   completedSessions |->
                     Len(SelectSeq(sessionsWithFeedback, LAMBDA x : x.status = "completed"))]]

\* sessionRows.find(row => row.get('id') === sessionId &&
\* row.get('userId') === req.user.uid): 0 when there is none
findSession(sessionRows, sessionId, uid) ==
  LET found == {i \in DOMAIN sessionRows :
                  sessionRows[i].id = sessionId /\ sessionRows[i].userId = uid}
  IN IF found = {} THEN 0 ELSE CHOOSE i \in found : \A j \in found : i <= j

\* the body of the answer of GET /api/sessions/:sessionId/details for the row
\* found; the scenario and the chat messages of the feedback rows, which no
\* row carries, are left out
detailsResult(session, feedbackRows) ==
  LET fb == SelectSeq(feedbackRows, LAMBDA f : f.sessionId = session.id)
  IN [session |-> [id |-> session.id, transcript |-> session.transcript,
                   status |-> session.status],
      feedback |->
        IF Len(fb) > 0
        THEN [talkTimeRatio |-> OrNumber(fb[1].talkTimeRatio, 0),
              confidenceScore |-> OrNumber(fb[1].confidenceScore, 0),
              fillerWordCount |-> OrNumber(fb[1].fillerWordCount, 0),
              conversationLength |-> OrNumber(fb[1].conversationLength, 0),
              aiFeedback |-> fb[1].aiFeedback]
        ELSE Null]

ReadRoutes == {"start", "end", "history", "details"}

\* requests to /api/sessions/end that carry a session id and nothing else
ReadEndBodies == {EndBody(id, Undefined, UndefinedArr) : id \in KnownIds}

\* req.params.sessionId of a request for the details
DetailsBodies == {[NoBody EXCEPT !.sessionId = id] : id \in KnownIds}

ReadBodies(route) ==
  CASE route = "start" -> StartBodies
    [] route = "end" -> ReadEndBodies
    [] route = "history" -> {NoBody}
    [] route = "details" -> DetailsBodies

\* GET /api/sessions/history
History(c) ==
  /\ req[c].pc = "history"
  /\ \E ok \in BOOLEAN :
       req' = [req EXCEPT ![c] =
         IF docState = "down"
         THEN [@ EXCEPT !.pc = "done", !.error = "TypeError",
                        !.res = Json(500, [error |-> "Failed to fetch session history"])]
         ELSE IF docState = "noSessions"
         THEN [@ EXCEPT !.pc = "done",
                        !.res = Json(500, [error |-> "Sessions sheet not found"])]
         ELSE IF ~ok
         THEN [@ EXCEPT !.pc = "done", !.error = "sheets",
                        !.res = Json(500, [error |-> "Failed to fetch session history"])]
         ELSE [@ EXCEPT !.pc = "done",
                        !.res = Json(200, historyResult(sessions, feedback, req[c].uid))]]
  /\ UNCHANGED <<docState, sessions, feedback, clock, served, redactVars, analyzeVars, calls>>

\* GET /api/sessions/:sessionId/details
Details(c) ==
  /\ req[c].pc = "details"
  /\ \E ok \in BOOLEAN :
       LET i == findSession(sessions, req[c].body.sessionId.v, req[c].uid)
       IN req' = [req EXCEPT ![c] =
            IF docState \in {"down", "noSessions"}
            THEN [@ EXCEPT !.pc = "done", !.error = "TypeError",
                           !.res = Json(500, [error |-> "Failed to fetch session details"])]
            ELSE IF ~ok
            THEN [@ EXCEPT !.pc = "done", !.error = "sheets",
                           !.res = Json(500, [error |-> "Failed to fetch session details"])]
            ELSE IF i = 0
            THEN [@ EXCEPT !.pc = "done", !.res = Json(404, [error |-> "Session not found"])]
            ELSE [@ EXCEPT !.pc = "done",
                           !.res = Json(200, detailsResult(sessions[i], feedback))]]
  /\ UNCHANGED <<docState, sessions, feedback, clock, served, redactVars, analyzeVars, calls>>

NextRead ==
  \/ \E c \in Clients, route \in ReadRoutes :
       \E uid \in Users, body \in ReadBodies(route) :
         Take(c, route, uid, body, MaxReadRequests)
  \/ \E c \in Clients : StartBegin(c)
  \/ \E c \in Clients : StartAdd(c)
  \/ \E c \in Clients : EndBegin(c)
  \/ \E c \in Clients : EndRows(c)
  \/ \E c \in Clients : EndWrite(c)
  \/ \E c \in Clients : EndFeedback(c)
  \/ \E c \in Clients : History(c)
  \/ \E c \in Clients : Details(c)

SpecRead == Init /\ [][NextRead]_vars

-----------------------------------------------------------------------------
(* Properties of analyzeSession *)

IsRecord(r) == "confidenceScore" \in DOMAIN r

FiveScores(r) ==
  <<r.discovery_score, r.product_knowledge_score, r.objection_handling_score,
    r.business_value_score, r.overall_effectiveness_score>>

\* C1: the record analyzeSession returns has confidenceScore in 20..100,
\* talkTimeRatio in 0..100 and each of the five scores in 1..5.
C1_ScoresInRange ==
  (aPc = "done" /\ IsRecord(aResult)) =>
    /\ aResult.confidenceScore \in 20..100
    /\ aResult.talkTimeRatio \in 0..100
    /\ \A i \in 1..5 : FiveScores(aResult)[i] \in 1..5

\* a history whose user turns name more concepts than the score has points
C1_Witness ==
  /\ aPc = "done" /\ IsRecord(aResult)
  /\ "google_ads_concepts_used" \in DOMAIN aResult
  /\ Len(aResult.google_ads_concepts_used) >= 5
  /\ aResult.product_knowledge_score = 5
  /\ aResult.talkTimeRatio = 100
  /\ aResult.confidenceScore < 100

\* C2: with an absent or empty transcript and an empty history the call
\* returns the default record: no words, no fillers, confidence 50, talk
\* time 50, length 0 and all five scores 2.
C2_DefaultRecord ==
  (aPc = "done" /\ ~Truthy(aTranscript) /\ aHistory = << >>) =>
    /\ IsRecord(aResult)
    /\ aResult.wordCount = 0 /\ aResult.fillerWordCount = 0
    /\ aResult.confidenceScore = 50 /\ aResult.talkTimeRatio = 50
    /\ aResult.conversationLength = 0
    /\ \A i \in 1..5 : FiveScores(aResult)[i] = 2

C2_Witness ==
  /\ aPc = "done" /\ aTranscript = Undefined /\ aHistory = << >>
  /\ aResult = defaultRecord

SameInput(c, d) == c.transcript = d.transcript /\ c.history = d.history

TookDefault(c) == ~Truthy(c.transcript) /\ c.history = << >>

NoMoreConfident(c, d) ==
  (/\ c.result.wordCount = d.result.wordCount
   /\ c.result.fillerWordCount <= d.result.fillerWordCount)
    => c.result.confidenceScore >= d.result.confidenceScore

\* C5 as stated: of two analysis texts with the same word count, the one
\* with no more filler words has no lower confidenceScore.
C5_Original ==
  \A i, j \in DOMAIN calls :
    (IsRecord(calls[i].result) /\ IsRecord(calls[j].result))
      => NoMoreConfident(calls[i], calls[j])

\* C5, amended: of two analysis texts with the same word count, neither from
\* a call that returned the default record for empty input, the one with no
\* more filler words has no lower confidenceScore.
C5_Monotone ==
  \A i, j \in DOMAIN calls :
    (/\ IsRecord(calls[i].result) /\ IsRecord(calls[j].result)
     /\ ~TookDefault(calls[i]) /\ ~TookDefault(calls[j]))
      => NoMoreConfident(calls[i], calls[j])

\* two texts of two words each, the one with more fillers strictly less confident
C5_Witness ==
  \E i, j \in DOMAIN calls :
    /\ IsRecord(calls[i].result) /\ IsRecord(calls[j].result)
    /\ ~TookDefault(calls[i]) /\ ~TookDefault(calls[j])
    /\ calls[i].result.wordCount = 2 /\ calls[j].result.wordCount = 2
    /\ calls[i].result.fillerWordCount < calls[j].result.fillerWordCount
    /\ calls[i].result.confidenceScore > calls[j].result.confidenceScore

-----------------------------------------------------------------------------
(* Properties of redactPII *)

\* C6: redactPII returns null, undefined, the empty string and every value
\* that is no string unchanged, and no call ends in an error.
C6_NonStringUnchanged ==
  rPc # "input" =>
    /\ rOut.t # "TypeError"
    /\ (~Truthy(rIn) \/ rIn.t # "string") => rOut = rIn

C6_Witness == rPc = "once" /\ rIn = Num("42") /\ rOut = Num("42")

\* C7: redactPII applied to its own result changes nothing.
C7_Idempotent == rPc = "twice" => rOut2 = rOut

\* a text of which the first pass replaced a name and a phone number
C7_Witness ==
  /\ rPc = "twice" /\ rIn.t = "string" /\ rOut # rIn /\ rOut2 = rOut
  /\ includes(rOut.v, "[NAME_REDACTED]")
  /\ includes(rOut.v, "[PHONE_REDACTED]")

\* C8: a text in which the e-mail, the phone or the SSN pattern matches comes
\* out with that category's placeholder: no earlier pattern takes a part of a
\* later category's number and leaves the rest of it in the text.  (A number
\* inside an e-mail address is hidden with the address and is not counted.)
C8_PlaceholderPerCategory ==
  (rPc # "input" /\ rIn.t = "string") =>
    /\ test(EmailRe, rIn.v) => includes(rOut.v, "[EMAIL_REDACTED]")
    /\ (test(PhoneRe, rIn.v) /\ ~test(EmailRe, rIn.v)) => includes(rOut.v, "[PHONE_REDACTED]")
    /\ (test(SsnRe, rIn.v) /\ ~test(EmailRe, rIn.v)) => includes(rOut.v, "[SSN_REDACTED]")

\* C8: the SSN pattern never sees "987-65-1234 5551234" whole: the phone
\* pattern, applied first, takes "1234 5551234"
C8_SsnTakenByPhone ==
  /\ rPc # "input"
  /\ rIn = Str("987-65-1234 5551234")
  /\ rOut = Str("987-65-[PHONE_REDACTED]")

\* a request to /api/sessions/end that got past authentication with a session
\* id and has been answered
EndAnswered(c) ==
  /\ req[c].route = "end" /\ req[c].pc = "done" /\ req[c].uid # ""
  /\ Truthy(req[c].body.sessionId)

\* C3: a request to /api/sessions/end with a session id is answered with the
\* metrics record, never with an error raised by the analysis: the analysis
\* of whatever history and transcript the client sent is caught at the
\* boundary.
C3_AnalysisNeverFails ==
  \A c \in Clients :
    EndAnswered(c) =>
      /\ req[c].res.status = 200
      /\ "analysis" \in DOMAIN req[c].res.body
      /\ IsRecord(req[c].res.body.analysis)

\* C3: a history whose user turn carries no message ends the request in 500
C3_AnalysisFailed ==
  \E c \in Clients :
    /\ EndAnswered(c)
    /\ req[c].body.conversationHistory = Arr(<<Turn("user", Undefined)>>)
    /\ req[c].res = Json(500, [error |-> "Failed to end session"])

\* a request to /api/ai/chat that got past authentication and has been answered
ChatAnswered(c) == req[c].route = "chat" /\ req[c].pc = "done" /\ req[c].uid # ""

HasReply(res) ==
  /\ res.status = 200
  /\ "response" \in DOMAIN res.body
  /\ res.body.response # ""

\* C9 as stated: every answered chat request carries a reply.
C9_AlwaysReply == \A c \in Clients : ChatAnswered(c) => HasReply(req[c].res)

\* C9: an answered chat request carries a non-empty reply, and the generic
\* in-character question whenever an error was caught on the way, unless the
\* handler turned the request away itself: 400 for a request whose userMessage
\* is the empty string or whose scenarioId is missing, 404 for a scenario that
\* is not in the sheet.
C9_ReplyUnlessTurnedAway ==
  \A c \in Clients :
    ChatAnswered(c) =>
      LET r == req[c]
          turnedAway ==
            /\ r.body.userMessage.t = "string"
            /\ r.body.conversationHistory.t # "null"
            /\ \/ r.res.status = 400
                  /\ (~Truthy(r.body.userMessage) \/ ~Truthy(r.body.scenarioId))
               \/ r.res.status = 404
                  /\ \A i \in DOMAIN ScenarioRows :
                       /\ Str(ScenarioRows[i].scenario_id) # r.body.scenarioId
                       /\ Str(ScenarioRows[i].id) # r.body.scenarioId
      IN /\ r.error = "" => (HasReply(r.res) \/ turnedAway)
         /\ r.error # "" =>
              /\ HasReply(r.res)
              /\ r.res.body.response = "Yes, I'm here. What did you want to discuss?"

\* C9: a request without userMessage and a failed completion request are both
\* answered with the generic question
C9_Witness ==
  /\ \E c \in Clients :
       /\ ChatAnswered(c) /\ req[c].body.userMessage = Undefined
       /\ req[c].error = "TypeError" /\ HasReply(req[c].res)
  /\ \E c \in Clients :
       /\ ChatAnswered(c) /\ req[c].error = "openai" /\ HasReply(req[c].res)

\* C10: no reply of the chat endpoint contains one of the phrases of a sales
\* coach; a completion that does is replaced before it is sent.
C10_NoSalesAdvice ==
  \A c \in Clients :
    (ChatAnswered(c) /\ HasReply(req[c].res)) =>
      ~includesAny(toLowerCase(req[c].res.body.response), salesPhrases)

\* C10: the coaching completion is sent as it came
C10_AdviceSent ==
  \E c \in Clients :
    /\ ChatAnswered(c)
    /\ req[c].res.status = 200
    /\ req[c].res.body.response = "You should sell the value. Try this approach first."

\* the metrics of an analysis record: the record without the feedback that the
\* response adds to it
MetricsOf(r) == [f \in (DOMAIN r) \ {"aiFeedback"} |-> r[f]]

\* analyzeSession applied to what the request carries
OwnAnalysis(body) ==
  analyzeSession(redactPII(IF Truthy(body.transcript) THEN body.transcript ELSE Str("")),
                 historyOrDefault(body))

\* a request to /api/sessions/end whose feedback completion request failed
FeedbackFailed(c) == EndAnswered(c) /\ req[c].error = "openai"

\* a request to /api/sessions/end that holds the record of its analysis
\* while it waits for a collaborator
Analysed(c) ==
  req[c].route = "end" /\ req[c].pc \in {"end_llm", "end_rows", "end_save", "end_add", "end_feedback"}

\* the response is 200 with the given metrics and the fallback feedback
AnsweredWithFallback(res, metrics) ==
  /\ res.status = 200
  /\ res.body.analysis.aiFeedback
       = "Session completed successfully. Keep practicing to improve your skills!"
  /\ MetricsOf(res.body.analysis) = metrics

\* C11: the step in which the feedback completion request of a request to
\* /api/sessions/end fails sets the fixed fallback feedback and leaves the
\* record of the analysis as it was, and the request is answered 200 with
\* that feedback and exactly that record.
C11_FeedbackFallback ==
  [][\A c \in Clients :
       /\ (req[c].pc = "end_llm" /\ req'[c].error = "openai") =>
            IF req'[c].pc = "done"
            THEN AnsweredWithFallback(req'[c].res, req[c].loc.analysis)
            ELSE /\ req'[c].loc.analysis = req[c].loc.analysis
                 /\ req'[c].loc.aiFeedback
                      = "Session completed successfully. Keep practicing to improve your skills!"
       /\ (Analysed(c) /\ req[c].error = "openai" /\ req[c].pc # "end_llm") =>
            IF req'[c].pc = "done"
            THEN AnsweredWithFallback(req'[c].res, req[c].loc.analysis)
            ELSE req'[c].loc = [req[c].loc EXCEPT !.session = req'[c].loc.session,
                                                  !.row = req'[c].loc.row]]_vars

\* C11: a request with a two-turn history is answered after its completion
\* request failed
C11_Witness ==
  \E c \in Clients :
    /\ FeedbackFailed(c)
    /\ Len(historyOrDefault(req[c].body)) = 2
    /\ req[c].res.status = 200
    /\ req[c].res.body.analysis.discovery_questions_count = 1

\* C12: the text a request to /api/sessions/end sends to the feedback
\* completion is redacted text, one that the redactor leaves as it is, and it
\* is no longer than the instruction line and the limit of the conversation
\* text together.
C12_LlmInputRedacted ==
  \A c \in Clients :
    req[c].pc = "end_llm" =>
      /\ Len(req[c].loc.llmInput)
           <= Len("Please analyze this sales conversation:\n\n") + FeedbackPromptLimit
      /\ redactText(req[c].loc.llmInput) = req[c].loc.llmInput

\* C12: the phone number of a trainee turn is in the text sent
C12_RawNumberSent ==
  \E c \in Clients :
    /\ req[c].pc = "end_llm"
    /\ includes(req[c].loc.llmInput, "Call 555-123-4567")

\* transcript || ''
OrEmpty(transcript) == IF Truthy(transcript) THEN transcript ELSE Str("")

\* C13: whenever a step writes a completed row to the Sessions sheet, a new
\* row or a change of one, it is a step of a request to /api/sessions/end
\* and the row's transcript is redactPII of that request's transcript (of ''
\* when it has none).
C13_StoredTranscriptRedacted ==
  [][\A i \in DOMAIN sessions' :
       ((i \notin DOMAIN sessions \/ sessions'[i] # sessions[i])
        /\ sessions'[i].status = "completed") =>
         \E c \in Clients :
           /\ req[c].route = "end" /\ req[c].pc \in {"end_save", "end_add"}
           /\ req'[c].pc # req[c].pc
           /\ sessions'[i].transcript = redactPII(OrEmpty(req[c].body.transcript))]_vars

\* C13: the row of a started session has been completed with the redacted
\* transcript
C13_Witness ==
  \E i \in DOMAIN sessions :
    /\ sessions[i].id # "ext" /\ sessions[i].status = "completed"
    /\ sessions[i].transcript.t = "string"
    /\ includes(sessions[i].transcript.v, "[PHONE_REDACTED]")
    /\ ~includes(sessions[i].transcript.v, "555-123-4567")

Analysed1 ==
  /\ aPc = "done" /\ IsRecord(aResult)
  /\ ~(~Truthy(aTranscript) /\ aHistory = << >>)

\* r is x = n / d rounded to the nearest integer, halves upwards (d > 0)
IsRounded(r, n, d) == 2 * d * r - d <= 2 * n /\ 2 * n < 2 * d * r + d

\* C15: off the default path, confidenceScore is 100 - 200 * fillerWordCount
\* / wordCount rounded to the nearest integer and clamped to [20,100], and
\* 100 when there is no word.
C15_ConfidenceFormula ==
  Analysed1 =>
    LET w == aResult.wordCount
        f == aResult.fillerWordCount
    IN IF w = 0 THEN aResult.confidenceScore = 100
       ELSE \E r \in -100..100 :
              /\ IsRounded(r, 100 * w - 200 * f, w)
              /\ aResult.confidenceScore = Max(20, Min(100, r))

\* C15: 3 fillers in 16 words give 62.5, rounded to 63
C15_Witness ==
  /\ Analysed1
  /\ aResult.wordCount = 16 /\ aResult.fillerWordCount = 3
  /\ aResult.confidenceScore = 63

\* the messages of the trainee's turns of a history, each followed by a space
RECURSIVE TraineeText(_)
TraineeText(history) ==
  IF history = << >> THEN ""
  ELSE IF Head(history).speaker = "user"
  THEN Head(history).message.v \o " " \o TraineeText(Tail(history))
  ELSE TraineeText(Tail(history))

\* the analysis text the claim describes
ExpectedText ==
  IF aHistory # << >>
  THEN LET t == TraineeText(aHistory) IN SubSeq(t, 1, Len(t) - 1)
  ELSE IF aTranscript.t = "string" THEN aTranscript.v ELSE ""

\* C16: the text analyzeSession analyses is, for a history that is not empty,
\* the messages of the trainee's turns in their order with one space between
\* them, and for an empty history the transcript, or the empty string; the
\* words and the filler words of the record are counted in that text.
C16_TextSelection ==
  Analysed1 =>
    /\ selectText(aTranscript, aHistory) = ExpectedText
    /\ aResult.wordCount = countWords(ExpectedText)
    /\ aResult.fillerWordCount = countFillers(ExpectedText)

\* C16: a history of a trainee turn, a counterpart turn and a second trainee
\* turn, with a transcript that has words of its own
C16_Witness ==
  /\ Analysed1
  /\ Len(aHistory) = 3
  /\ aHistory[1].speaker = "user" /\ aHistory[2].speaker = "ai" /\ aHistory[3].speaker = "user"
  /\ aHistory[1] # aHistory[3]
  /\ Truthy(aTranscript)
  /\ aResult.wordCount = countWords(aHistory[1].message.v) + countWords(aHistory[3].message.v)

\* the number of the trainee's turns of a history
TraineeTurns(history) ==
  Cardinality({i \in DOMAIN history : history[i].speaker = "user"})

\* C17: for a history that is not empty, talkTimeRatio is 100 times the number
\* of the trainee's turns divided by the number of all turns, rounded to the
\* nearest integer; as many trainee turns as counterpart turns give 50.
C17_TalkTimeRatio ==
  (Analysed1 /\ aHistory # << >>) =>
    /\ IsRounded(aResult.talkTimeRatio, 100 * TraineeTurns(aHistory), Len(aHistory))
    /\ (2 * TraineeTurns(aHistory) = Len(aHistory) => aResult.talkTimeRatio = 50)

\* C17: two of three turns are the trainee's and the ratio is rounded up to 67
C17_Witness ==
  /\ Analysed1
  /\ Len(aHistory) = 3
  /\ TraineeTurns(aHistory) = 2
  /\ aResult.talkTimeRatio = 67

\* an analysis of a transcript that has words, without a history
TranscriptOnly ==
  /\ Analysed1
  /\ aHistory = << >>
  /\ aTranscript.t = "string"
  /\ aResult.wordCount > 0

\* C18: without a history, talkTimeRatio of a transcript that is not empty is
\* the estimate of its word count, a tenth of the count kept within [20,80].
C18_WordCountEstimate ==
  TranscriptOnly => aResult.talkTimeRatio = estimatedTalkTime(aResult.wordCount)

\* C18: a transcript of six words without a history is given the ratio 50
C18_ConstantRatio ==
  /\ TranscriptOnly
  /\ aResult.wordCount = 6
  /\ aResult.talkTimeRatio = 50
  /\ estimatedTalkTime(aResult.wordCount) = 20

\* the lower-cased tokens of the analysis text between runs of white space
TextTokens ==
  LET pieces == split(toLowerCase(ExpectedText), WhiteSpace)
  IN {i \in DOMAIN pieces : pieces[i] # ""}

\* the tokens that have a word of the filler vocabulary in them
FillerTokens ==
  LET pieces == split(toLowerCase(ExpectedText), WhiteSpace)
  IN {i \in TextTokens :
        \E filler \in {"um", "uh", "like", "you know", "basically", "literally", "actually"} :
          includes(pieces[i], filler)}

\* C19: fillerWordCount is the number of the lower-cased tokens of the analysis
\* text that contain a word of the filler vocabulary, every token counted
\* once, so it is at most wordCount; the turn "Um, so, like, I uh think this
\* is good" has three such tokens and gives at least 3.
C19_FillerTokens ==
  Analysed1 =>
    /\ aResult.fillerWordCount = Cardinality(FillerTokens)
    /\ aResult.wordCount = Cardinality(TextTokens)
    /\ aResult.fillerWordCount <= aResult.wordCount
    /\ (\E i \in DOMAIN aHistory :
           aHistory[i] = Turn("user", Str("Um, so, like, I uh think this is good")))
         => aResult.fillerWordCount >= 3

\* C19: the turn with the tokens "um,", "like," and "uh" alone in the history
C19_Witness ==
  /\ Analysed1
  /\ aHistory = <<Turn("user", Str("Um, so, like, I uh think this is good"))>>
  /\ aResult.fillerWordCount = 3
  /\ aResult.wordCount = 9
  /\ aResult.confidenceScore < 80

\* the trainee's turns of the history that ask a question with a word of the
\* discovery vocabulary in it
DiscoveryTurns ==
  {i \in DOMAIN aHistory :
     /\ aHistory[i].speaker = "user"
     /\ includes(aHistory[i].message.v, "?")
     /\ \E keyword \in {"goal", "currently", "budget", "target", "competition",
                         "challenge", "measure", "success",
                         "how", "what", "why", "when", "where"} :
          includes(toLowerCase(aHistory[i].message.v), keyword)}

\* C20: discovery_questions_count is the number of the trainee's turns with a
\* question mark and one of goal, currently, budget, target, competition,
\* challenge, measure, success, how, what, why, when, where in the message;
\* the counterpart's turns and turns without a question mark are not counted.
C20_DiscoveryCount ==
  Analysed1 => aResult.discovery_questions_count = Cardinality(DiscoveryTurns)

\* C20: the question "Is it a success?" of the trainee is not counted
C20_SuccessNotCounted ==
  /\ Analysed1
  /\ aHistory = <<Turn("user", Str("Is it a success?"))>>
  /\ DiscoveryTurns = {1}
  /\ aResult.discovery_questions_count = 0

\* score is the value at count of a mapping that does not decrease up to
\* count and from count on to top, and that is lowest at zero
RisesWith(f(_), score, count, top) ==
  /\ score = f(count)
  /\ \A m \in 0..top : (m <= count => f(m) <= score) /\ (m >= count => f(m) >= score)
  /\ count = 0 => \A m \in 0..top : score <= f(m)

\* C21: each of the discovery, product-knowledge, objection-handling and
\* business-value scores of an analysis does not decrease when its own count
\* grows, and a count of zero gives the lowest value of the score.
C21_ScoresRiseWithCounts ==
  Analysed1 =>
    LET turns == Len(aHistory) + 1
    IN /\ RisesWith(discoveryScore, aResult.discovery_score,
                    aResult.discovery_questions_count, turns)
       /\ RisesWith(productKnowledgeScore, aResult.product_knowledge_score,
                    Len(aResult.google_ads_concepts_used), Len(googleAdsConcepts))
       /\ RisesWith(objectionHandlingScore, aResult.objection_handling_score,
                    aResult.objection_handling_count, turns)
       /\ RisesWith(businessValueScore, aResult.business_value_score,
                    aResult.business_value_mentions, turns)

\* C21: an analysis with two discovery questions and no objection handled
C21_Witness ==
  /\ Analysed1
  /\ aResult.discovery_questions_count = 2
  /\ aResult.discovery_score = 2
  /\ aResult.objection_handling_count = 0
  /\ aResult.objection_handling_score = 1
  /\ aResult.product_knowledge_score > 1

\* C22: an analysis that recognises exactly one concept has a
\* product_knowledge_score of at least 3, and an analysis with exactly one
\* trainee turn that handles an objection has an objection_handling_score of
\* at least 3.
C22_SingleSignalScoresThree ==
  Analysed1 =>
    /\ Len(aResult.google_ads_concepts_used) = 1 => aResult.product_knowledge_score >= 3
    /\ aResult.objection_handling_count = 1 => aResult.objection_handling_score >= 3

\* C22: the one concept "budget" of a trainee turn scores 2
C22_OneConceptScoresTwo ==
  /\ Analysed1
  /\ aHistory = <<Turn("user", Str("What is your current budget for this?"))>>
  /\ aResult.google_ads_concepts_used = <<"budget">>
  /\ aResult.product_knowledge_score = 2

\* the sum of the four sub-scores of a record
SubScoreSum(r) ==
  r.discovery_score + r.product_knowledge_score + r.objection_handling_score
    + r.business_value_score

\* q is the least integer that is at least n / d
IsCeiling(q, n, d) == d * q >= n /\ d * (q - 1) < n

\* C23: in every record analyzeSession returns, overall_effectiveness_score is
\* the average of the four sub-scores rounded up and kept within 1..5, so it
\* is at least the smallest and at most the largest of the four.
C23_OverallIsCeilingOfAverage ==
  (aPc = "done" /\ IsRecord(aResult)) =>
    LET overall == aResult.overall_effectiveness_score
    IN /\ \E q \in 0..6 : /\ IsCeiling(q, SubScoreSum(aResult), 4)
                           /\ overall = Max(1, Min(5, q))
       /\ \E i \in 1..4 : FiveScores(aResult)[i] <= overall
       /\ \E i \in 1..4 : FiveScores(aResult)[i] >= overall

\* C23: sub-scores 2, 5, 3 and 3 have the average 3.25 and the overall score 4
C23_Witness ==
  /\ Analysed1
  /\ FiveScores(aResult) = <<2, 5, 3, 3, 4>>

\* the history with another message in each of the counterpart's turns
OtherReplies(history) ==
  [i \in DOMAIN history |->
     IF history[i].speaker = "ai"
     THEN Turn("ai", CHOOSE m \in AiMessages : m # history[i].message)
     ELSE history[i]]

\* a transcript with other words than the given one
OtherTranscript(transcript) ==
  IF transcript = Str("Basically um\n it, like, works. Really!")
  THEN Null
  ELSE Str("Basically um\n it, like, works. Really!")

\* C24: the analysis of a history that is not empty is the same for every
\* transcript, and the same when the messages of the counterpart's turns are
\* exchanged for others, turn by turn.
C24_TranscriptAndRepliesIgnored ==
  (aPc = "done" /\ aHistory # << >>) =>
    /\ analyzeSession(OtherTranscript(aTranscript), aHistory) = aResult
    /\ analyzeSession(aTranscript, OtherReplies(aHistory)) = aResult

\* C24: a transcript with filler words beside a history of a trainee turn
\* without any and a counterpart turn
C24_Witness ==
  /\ Analysed1
  /\ aTranscript = Str("Basically um\n it, like, works. Really!")
  /\ Len(aHistory) = 2
  /\ aHistory[1].speaker = "user" /\ aHistory[2].speaker = "ai"
  /\ OtherReplies(aHistory) # aHistory
  /\ aResult.wordCount > 0
  /\ aResult.fillerWordCount = 0

\* the response is 200 with the given metrics and feedback
AnsweredWith(res, metrics, aiFeedback) ==
  /\ res.status = 200
  /\ MetricsOf(res.body.analysis) = metrics
  /\ res.body.analysis.aiFeedback = aiFeedback

\* C25: a request to /api/sessions/end is not stopped by its storage: when
\* reading the Sessions rows, saving or adding the session row fails, or the
\* Sessions sheet is missing, the request goes on to the write of the Feedback
\* row; when that write fails, or the spreadsheet handle is not initialised,
\* the request is answered 200 with the record of its analysis and its
\* feedback; no storage failure is answered 500.
C25_StorageFailuresTolerated ==
  [][\A c \in Clients :
       LET old == req[c]
           new == req'[c]
       IN /\ (old.pc = "end_rows" /\ new.pc \notin {"end_rows", "end_save", "end_add"}) =>
               new.pc = "end_feedback"
          /\ (old.pc \in {"end_save", "end_add"} /\ new.pc # old.pc) =>
               new.pc = "end_feedback"
          /\ (old.pc = "end_feedback" /\ new.pc # old.pc) =>
               /\ new.pc = "done"
               /\ AnsweredWith(new.res, old.loc.analysis, old.loc.aiFeedback)
          /\ (old.pc = "end_llm" /\ new.pc # old.pc) =>
               CASE docState = "ready" -> new.pc = "end_rows"
                 [] docState = "noSessions" -> new.pc = "end_feedback"
                 [] docState = "down" ->
                      /\ new.pc = "done"
                      /\ \E text \in FeedbackCompletions \cup {fallbackFeedback} :
                           AnsweredWith(new.res, old.loc.analysis, text)
          /\ (old.pc = "end" /\ new.pc # old.pc) =>
               IF new.pc = "done"
               THEN \/ new.res.status = 400
                    \/ new.res.status = 500 /\ new.error = "TypeError"
                    \/ /\ docState = "down"
                       /\ AnsweredWith(new.res, OwnAnalysis(old.body), defaultFeedback)
               ELSE \/ new.pc = "end_llm"
                    \/ new.pc = IF docState = "ready" THEN "end_rows" ELSE "end_feedback"]_vars

\* C25: a request is answered 200 with its feedback row written although no
\* session row could be stored
C25_Witness ==
  \E c \in Clients :
    /\ EndAnswered(c)
    /\ req[c].res.status = 200
    /\ docState = "ready"
    /\ sessions = << >>
    /\ Len(feedback) = 1
    /\ feedback[1].sessionId = req[c].body.sessionId.v
    /\ feedback[1].aiFeedback = req[c].res.body.analysis.aiFeedback

\* C26: the Sessions sheet holds at most one row for a session id, whatever
\* requests to /api/sessions/start and /api/sessions/end have run, overlapping
\* or not.
C26_OneRowPerSessionId ==
  \A i, j \in DOMAIN sessions : sessions[i].id = sessions[j].id => i = j

\* C26: two requests to /api/sessions/end for the id "ext", which no row had,
\* have each added a row
C26_TwoRowsAdded ==
  /\ Len(sessions) = 2
  /\ sessions[1].id = "ext" /\ sessions[2].id = "ext"
  /\ sessions[1].status = "completed" /\ sessions[2].status = "completed"
  /\ \A c \in Clients : EndAnswered(c) /\ req[c].res.status = 200

\* C27: a row of the Sessions sheet is changed only by a request to
\* /api/sessions/end of the user the row belongs to: the status and the
\* transcript of a row of another user stay as they are.
C27_OnlyOwnRowsChanged ==
  [][\A i \in DOMAIN sessions :
       sessions'[i] # sessions[i] =>
         \E c \in Clients :
           /\ req[c].pc = "end_save" /\ req'[c].pc # req[c].pc
           /\ req[c].uid = sessions[i].userId]_vars

\* C27: the session user u1 started is completed, and the request that ended
\* it was made by user u2
C27_ForeignRowCompleted ==
  \E c \in Clients :
    /\ EndAnswered(c) /\ req[c].uid = "u2" /\ req[c].res.status = 200
    /\ served = 2
    /\ Len(sessions) = 1
    /\ sessions[1].userId = "u1"
    /\ sessions[1].id = req[c].body.sessionId.v
    /\ sessions[1].status = "completed"
    /\ sessions[1].transcript.t = "string"
    /\ includes(sessions[1].transcript.v, "[PHONE_REDACTED]")

\* the rows of the Sessions sheet that belong to a user
OwnRows(uid) == {i \in DOMAIN sessions : sessions[i].userId = uid}

\* C28: the read endpoints show a requester nothing but their own sessions.
\* GET /api/sessions/history answers with as many sessions as the sheet has
\* rows of the authenticated user, each one the id and status of such a row.
\* GET /api/sessions/:sessionId/details answers 200 only with a row that has
\* the id asked for and the authenticated user as userId; when the rows are
\* read and there is no such row it answers 404, whatever rows of other users
\* have the id; a request whose sheets cannot be read is answered 500 and
\* shows no row.
C28_OnlyOwnSessionsRead ==
  [][\A c \in Clients :
       LET old == req[c]
           new == req'[c]
           own == OwnRows(old.uid)
       IN /\ (old.pc = "history" /\ new.pc = "done") =>
               IF new.res.status = 200
               THEN LET shown == new.res.body.sessions
                    IN /\ Len(shown) = Cardinality(own)
                       /\ new.res.body.pagination.total = Cardinality(own)
                       /\ \A k \in DOMAIN shown :
                            \E i \in own : /\ sessions[i].id = shown[k].id
                                            /\ sessions[i].status = shown[k].status
               ELSE new.res.status = 500 /\ DOMAIN new.res.body = {"error"}
          /\ (old.pc = "details" /\ new.pc = "done") =>
               LET asked == {i \in own : sessions[i].id = old.body.sessionId.v}
               IN CASE new.res.status = 200 ->
                         \E i \in asked :
                           new.res.body.session
                             = [id |-> sessions[i].id, transcript |-> sessions[i].transcript,
                                status |-> sessions[i].status]
                    [] new.res.status = 404 -> asked = {}
                    [] OTHER -> /\ new.res.status = 500 /\ new.error # ""
                                /\ DOMAIN new.res.body = {"error"}]_vars

\* C28: the history of user u1 shows one session while the sheet also has a
\* row of user u2
C28_Witness ==
  \E c \in Clients :
    /\ req[c].route = "history" /\ req[c].pc = "done" /\ req[c].uid = "u1"
    /\ req[c].res.status = 200
    /\ Len(req[c].res.body.sessions) = 1
    /\ Len(sessions) = 2
    /\ Cardinality(OwnRows("u2")) = 1

\* C29: a handler of an /api route runs, writes to a sheet or asks for a
\* completion only for a request whose bearer token has been verified; a
\* request without a token is answered 401 and one whose token fails the
\* verification 403, and neither reaches its handler or changes a sheet.
C29_AuthenticationGates ==
  [][/\ \A c \in Clients :
          LET old == req[c]
              new == req'[c]
          IN /\ (new # old /\ new.token \in BadTokens) =>
                  /\ new.pc = "done" /\ new.uid = ""
                  /\ new.res = IF new.token = "none"
                               THEN Json(401, [error |-> "Access token required"])
                               ELSE Json(403, [error |-> "Invalid token"])
                  /\ sessions' = sessions /\ feedback' = feedback
             /\ new.pc \notin {"idle", "done"} => new.token = "valid" /\ new.uid \in Users
             /\ (new.pc = "done" /\ new.res.status \notin {401, 403}) => new.token = "valid"
     /\ (sessions' # sessions \/ feedback' # feedback) =>
          \E c \in Clients :
            /\ req'[c] # req[c]
            /\ req[c].token = "valid" /\ req[c].uid \in Users
            /\ req[c].pc \in {"start_add", "end_save", "end_add", "end_feedback"}]_vars

\* C29: a request to /api/sessions/start whose token fails is answered 403
\* while the handler of a verified request waits for its rows; no sheet has
\* a row
C29_Witness ==
  /\ docState = "ready"
  /\ req[1].token = "valid" /\ req[1].pc = "end_rows"
  /\ req[2].route = "start" /\ req[2].token = "bad" /\ req[2].res.status = 403
  /\ sessions = << >> /\ feedback = << >>

\* C30: the status of a session moves forward only.  No row leaves the
\* Sessions sheet; a row /api/sessions/start adds is new and active; a row
\* /api/sessions/end saves or adds is completed; and a completed row stays
\* completed in every step of every request.
C30_StatusMovesForward ==
  [][/\ Len(sessions') >= Len(sessions)
     /\ \A i \in DOMAIN sessions' :
          IF i \in DOMAIN sessions
          THEN /\ sessions[i].status = "completed" => sessions'[i].status = "completed"
               /\ sessions'[i] # sessions[i] =>
                    /\ sessions'[i].status = "completed"
                    /\ \E c \in Clients : req[c].pc = "end_save" /\ req'[c].pc # "end_save"
          ELSE \E c \in Clients :
                 /\ req'[c] # req[c]
                 /\ i = Len(sessions) + 1
                 /\ \/ req[c].pc = "start_add" /\ sessions'[i].status = "active"
                    \/ req[c].pc = "end_add" /\ sessions'[i].status = "completed"]_vars

\* C30: the row of a session that was started has been completed
C30_Witness ==
  \E i \in DOMAIN sessions, c \in Clients :
    /\ sessions[i].id = "session_0_" \o sessions[i].userId
    /\ sessions[i].status = "completed"
    /\ EndAnswered(c) /\ req[c].body.sessionId.v = sessions[i].id
    /\ req[c].res.status = 200

=============================================================================
